---- MODULE Spec2Model ----
(***************************************************************************)
(* Model of ort's operator/kernel bridge (src/src/operator/kernel.rs):     *)
(*   - KernelAttributes: the owned/borrowed wrapper of a native            *)
(*     OrtKernelInfo handle (from_ptr, clone, drop, constant_input);       *)
(*   - KernelContext: par_for with its trampoline parallel_for_cb, and     *)
(*     get_resource;                                                       *)
(*   - the attribute decoders GetKernelAttribute::get_from, reached by     *)
(*     KernelAttributes::get, and node_name;                               *)
(*   - inputs() / outputs().                                               *)
(* The native engine (ONNX Runtime's C API) is the environment: every      *)
(* answer it may give to a call is an input drawn with \E.                 *)
(***************************************************************************)
EXTENDS Integers, Sequences, FiniteSets, TLC

VARIABLES
    insts,    \* KernelAttributes instances ever created, in creation order
    handles,  \* native OrtKernelInfo handles: who made them, release calls
    vrefs,    \* ValueRef's returned by constant_input
    valRel,   \* ReleaseValue calls made on each engine-owned OrtValue
    last,     \* the KernelAttributes operation that ran last, and its outcome
    pf,       \* the par_for call in progress (closure box, engine workers)
    res,      \* the last get_resource call and its outcome
    info,     \* the attribute a kernel info holds (attribute decoding)
    call,     \* the last get / get_from / node_name call and its outcome
    decl,     \* the inputs and outputs the kernel's operator declares
    io        \* the last inputs() / outputs() call and its outcome

lifeVars == <<insts, handles, vrefs, valRel, last>>
ctxVars  == <<pf, res>>
attrVars == <<info, call>>
ioVars   == <<decl, io>>
vars     == <<insts, handles, vrefs, valRel, last, pf, res, info, call, decl, io>>

(***************************************************************************)
(* Bounds of the model.                                                    *)
(***************************************************************************)
MaxInst == 3      \* KernelAttributes instances created in one behaviour
MaxRefs == 2      \* ValueRef's obtained from constant_input in one behaviour
MaxTotal == 4     \* largest `total` handed to par_for
MaxLen == 2       \* longest attribute string / array / node name
MaxDecl == 2      \* most inputs (outputs) an operator declares

\* The engine-owned OrtValue's a constant input may point to (0 is null).
ValuePtrs == {1, 2}

(***************************************************************************)
(* The state each component rests in before its first call, and while      *)
(* another component is explored.                                          *)
(***************************************************************************)
PfIdle ==
    [pc |-> "idle", total |-> 0, max_num_batches |-> 0, box |-> "none",
     frees |-> 0, workers |-> <<>>, cnt |-> [i \in 0..(MaxTotal - 1) |-> 0],
     uaf |-> FALSE, status |-> "none", result |-> "none"]

\* The resource identifiers and versions a kernel asks for.
ResourceKeys == {0, 1} \X {0, 1}

\* No resource is supported (the pointer of each is null, 0).
NoResources == [k \in ResourceKeys |-> 0]

ResIdle(table) ==
    [op |-> "none", table |-> table, id |-> 0, version |-> 0,
     status |-> "none", ptr |-> 0, result |-> [tag |-> "none"]]

CtxIdle ==
    /\ pf = PfIdle
    /\ res = ResIdle(NoResources)

\* No call made yet. size1 and size2 are the sizes the first and the second
\* native call of a two-call operation reported (-1: that call was not made
\* or reported none).
NoCall ==
    [op |-> "none", ty |-> "none", name |-> <<>>, v2 |-> <<>>,
     inner |-> [tag |-> "none", val |-> <<>>, size1 |-> -1, size2 |-> -1],
     result |-> [tag |-> "none", val |-> <<>>]]

AttrIdle ==
    /\ info = [name |-> <<>>, attr |-> [ty |-> "none", val |-> <<>>],
               node_name |-> <<>>]
    /\ call = NoCall

NoIo ==
    [op |-> "none", fail |-> [kind |-> "none", idx |-> 0],
     result |-> [tag |-> "none", val |-> <<>>], log |-> <<>>]

IoIdle ==
    /\ decl = [inputs |-> <<>>, outputs |-> <<>>]
    /\ io = NoIo

LifeIdle ==
    /\ insts = <<>>
    /\ handles = <<>>
    /\ vrefs = <<>>
    /\ valRel = [v \in ValuePtrs |-> 0]
    /\ last = [op |-> "none", inst |-> 0, outcome |-> "ok"]

(***************************************************************************)
(* KernelAttributes: ownership of the native handle.                       *)
(***************************************************************************)

\* struct KernelAttributes { ptr, should_release }, with three history
\* fields: `alive` (not yet dropped), `src` (the instance it was cloned
\* from, 0 when built by from_ptr) and `released` (the handles this
\* instance passed to ReleaseKernelInfo, in order).
KernelAttributes(ptr, should_release, src) ==
    [ptr |-> ptr, should_release |-> should_release,
     alive |-> TRUE, src |-> src, released |-> <<>>]

\* from_ptr stores the caller's flag as it is.
from_ptr(ptr, should_release) == KernelAttributes(ptr, should_release, 0)

\* Does some instance own handle h?
Owned(h) == \E i \in DOMAIN insts : insts[i].ptr = h /\ insts[i].should_release

\* The engine hands a kernel info to the layer, which wraps it. An owned
\* wrapper is made of a handle the engine gives away (a fresh one); a
\* borrowed wrapper of any handle the engine still owns.
FromPtr ==
    /\ Len(insts) < MaxInst
    /\ \E h \in 1..(Len(handles) + 1), sr \in BOOLEAN :
         /\ h <= Len(handles) => (~sr /\ handles[h].origin = "engine" /\ ~Owned(h))
         /\ handles' = IF h <= Len(handles) THEN handles
                       ELSE Append(handles, [origin |-> "engine", released |-> 0])
         /\ insts' = Append(insts, from_ptr(h, sr))
         /\ last' = [op |-> "from_ptr", inst |-> Len(insts) + 1, outcome |-> "ok"]
    /\ UNCHANGED <<vrefs, valRel, ctxVars, attrVars, ioVars>>

\* The flag of a clone (line 123) and a faulty variant that copies the source's.
clone_flag_copied(self) == self.should_release
clone_should_release(self) == TRUE

\* impl Clone: CopyKernelInfo, both failures are panics (expect).
\* status/out are the engine's answer: out = 0 is the null pointer.
clone_result(self, src, status, out) ==
    IF status = "ok" /\ out # 0
    THEN [outcome |-> "ok", inst |-> KernelAttributes(out, clone_should_release(self), src)]
    ELSE [outcome |-> "panic", inst |-> self]

Clone(i) ==
    /\ Len(insts) < MaxInst
    /\ insts[i].alive
    /\ \E status \in {"ok", "error"}, null \in BOOLEAN :
         LET out == IF null \/ status = "error" THEN 0 ELSE Len(handles) + 1
             r   == clone_result(insts[i], i, status, out)
         IN  /\ IF r.outcome = "ok"
                THEN /\ handles' = Append(handles, [origin |-> "copy", released |-> 0])
                     /\ insts' = Append(insts, r.inst)
                ELSE UNCHANGED <<handles, insts>>
             /\ last' = [op |-> "clone", inst |-> i, outcome |-> r.outcome]
    /\ UNCHANGED <<vrefs, valRel, ctxVars, attrVars, ioVars>>

\* The guard of the release in drop (line 138) and a faulty variant that forgets it.
drop_releases_always(self) == TRUE
drop_releases(self) == self.should_release

\* impl Drop: ReleaseKernelInfo(self.ptr) when should_release.
Drop(i) ==
    /\ insts[i].alive
    /\ LET self == insts[i]
           rel  == drop_releases(self)
       IN  /\ insts' = [insts EXCEPT ![i].alive = FALSE,
                           ![i].released = IF rel THEN Append(@, self.ptr) ELSE @]
           /\ handles' = IF rel
                         THEN [handles EXCEPT ![self.ptr].released = @ + 1]
                         ELSE handles
    /\ last' = [op |-> "drop", inst |-> i, outcome |-> "ok"]
    /\ UNCHANGED <<vrefs, valRel, ctxVars, attrVars, ioVars>>

\* The availability test of constant_input (line 95) and a faulty variant that
\* rejects only when both conditions hold.
constant_input_rejects_both(is_constant, value_ptr) == is_constant = 0 /\ value_ptr = 0
constant_input_rejects(is_constant, value_ptr) == is_constant = 0 \/ value_ptr = 0

\* DynValue::from_ptr_nodrop: a value that is not released when dropped.
from_ptr_nodrop(value_ptr) == [ptr |-> value_ptr, drop |-> FALSE, alive |-> TRUE]

\* constant_input: KernelInfoGetConstantInput_tensor, then the availability
\* test, then the downcast to the requested element type. eng is the
\* engine's answer: status, is_constant, value_ptr (0 is null), and whether
\* the value has the requested type.
constant_input(eng) ==
    IF eng.status # "ok" THEN [tag |-> "Err", ref |-> from_ptr_nodrop(0)]
    ELSE IF constant_input_rejects(eng.is_constant, eng.value_ptr)
    THEN [tag |-> "Err", ref |-> from_ptr_nodrop(0)]
    ELSE IF ~eng.matches
    THEN [tag |-> "Err", ref |-> from_ptr_nodrop(eng.value_ptr)]
    ELSE [tag |-> "Ok", ref |-> from_ptr_nodrop(eng.value_ptr)]

\* Releases caused by dropping a value: only a value built to be dropped.
value_drop(ref, rel) ==
    IF ref.drop /\ ref.ptr # 0 THEN [rel EXCEPT ![ref.ptr] = @ + 1] ELSE rel

ConstantInput(i) ==
    /\ insts[i].alive
    /\ \E idx \in 0..1, status \in {"ok", "error"}, is_constant \in 0..1,
          value_ptr \in {0} \cup ValuePtrs, matches \in BOOLEAN :
         LET eng == [idx |-> idx, status |-> status, is_constant |-> is_constant,
                     value_ptr |-> value_ptr, matches |-> matches]
             r   == constant_input(eng)
         IN  /\ r.tag = "Ok" => Len(vrefs) < MaxRefs
             /\ IF r.tag = "Ok"
                THEN vrefs' = Append(vrefs, r.ref) /\ valRel' = valRel
                ELSE \* a failed downcast drops the reference it was given
                     vrefs' = vrefs /\ valRel' = value_drop(r.ref, valRel)
             /\ last' = [op |-> "constant_input", inst |-> i,
                         outcome |-> r.tag, eng |-> eng]
    /\ UNCHANGED <<insts, handles, ctxVars, attrVars, ioVars>>

\* The caller drops a reference constant_input returned.
DropValueRef(k) ==
    /\ vrefs[k].alive
    /\ vrefs' = [vrefs EXCEPT ![k].alive = FALSE]
    /\ valRel' = value_drop(vrefs[k], valRel)
    /\ last' = [op |-> "drop_ref", inst |-> k, outcome |-> "ok"]
    /\ UNCHANGED <<insts, handles, ctxVars, attrVars, ioVars>>

NextLife ==
    \/ FromPtr
    \/ \E i \in DOMAIN insts : Clone(i)
    \/ \E i \in DOMAIN insts : Drop(i)

NextConst ==
    \/ \E i \in DOMAIN insts : ConstantInput(i)
    \/ \E k \in DOMAIN vrefs : DropValueRef(k)

InitLife == LifeIdle /\ CtxIdle /\ AttrIdle /\ IoIdle

SpecLife == InitLife /\ [][NextLife]_vars

\* constant_input is explored on one kernel info, owned or borrowed.
InitConst ==
    /\ \E sr \in BOOLEAN : insts = <<from_ptr(1, sr)>>
    /\ handles = <<[origin |-> "engine", released |-> 0]>>
    /\ vrefs = <<>>
    /\ valRel = [v \in ValuePtrs |-> 0]
    /\ last = [op |-> "from_ptr", inst |-> 1, outcome |-> "ok"]
    /\ CtxIdle /\ AttrIdle /\ IoIdle

SpecConst == InitConst /\ [][NextConst]_vars

\* C1: an owned instance makes exactly one ReleaseKernelInfo call, on its own
\* handle and at its drop (none while it is alive); a borrowed instance makes
\* none, dropped or not, and its handle is never released by this layer.
C1_ReleaseOnceIffOwned ==
    \A i \in DOMAIN insts :
        LET self == insts[i] IN
        /\ self.should_release =>
             /\ self.released = IF self.alive THEN <<>> ELSE <<self.ptr>>
             /\ handles[self.ptr].released = Len(self.released)
        /\ ~self.should_release =>
             /\ self.released = <<>>
             /\ handles[self.ptr].released = 0

\* An owned and a borrowed instance have both been dropped.
C1_Witness ==
    \E i, j \in DOMAIN insts :
        /\ insts[i].should_release /\ ~insts[i].alive
        /\ handles[insts[i].ptr].released = 1
        /\ ~insts[j].should_release /\ ~insts[j].alive

\* C2: a clone step adds one instance, marked owned, on a fresh handle made
\* by CopyKernelInfo and different from the source's, and changes no other
\* instance (the source keeps its flag) and no existing handle; dropping a
\* clone releases the clone's handle once and touches no other handle or
\* instance, so the original's handle stays as it was.
C2_CloneIsOwnedCopy ==
    [][ /\ (last'.op = "clone" /\ last'.outcome = "ok") =>
             LET j == Len(insts') IN
             /\ j = Len(insts) + 1
             /\ insts'[j].src = last'.inst
             /\ insts'[j].should_release
             /\ insts'[j].ptr # insts[last'.inst].ptr
             /\ insts'[j].ptr \notin DOMAIN handles
             /\ handles'[insts'[j].ptr] = [origin |-> "copy", released |-> 0]
             /\ \A i \in DOMAIN insts : insts'[i] = insts[i]
             /\ \A h \in DOMAIN handles : handles'[h] = handles[h]
        /\ (last'.op = "drop" /\ insts[last'.inst].src # 0) =>
             LET c == last'.inst IN
             /\ insts'[c].released = <<insts[c].ptr>>
             /\ handles'[insts[c].ptr].released = handles[insts[c].ptr].released + 1
             /\ insts[insts[c].src].ptr # insts[c].ptr
             /\ \A h \in DOMAIN handles : h # insts[c].ptr => handles'[h] = handles[h]
             /\ \A i \in DOMAIN insts : i # c => insts'[i] = insts[i]
      ]_vars

\* The clone of a borrowed instance has been dropped while its source is
\* alive, still borrowed, with its handle unreleased.
C2_Witness ==
    \E j \in DOMAIN insts :
        /\ insts[j].src # 0 /\ ~insts[j].alive
        /\ handles[insts[j].ptr].released = 1
        /\ LET s == insts[insts[j].src] IN
             ~s.should_release /\ s.alive /\ handles[s.ptr].released = 0

\* C7: constant_input returns a reference exactly when the native call
\* succeeded, reported the input constant, gave a non-null value and the
\* value has the requested type; the reference points to that value; and no
\* drop of such a reference (or of one discarded by a failed downcast)
\* releases the engine's value.
C7_ConstantInput ==
    /\ last.op = "constant_input" =>
         /\ last.outcome \in {"Ok", "Err"}
         /\ last.outcome = "Ok" <=>
              /\ last.eng.status = "ok"
              /\ last.eng.is_constant # 0
              /\ last.eng.value_ptr # 0
              /\ last.eng.matches
         /\ last.outcome = "Ok" =>
              /\ vrefs # <<>>
              /\ vrefs[Len(vrefs)].ptr = last.eng.value_ptr
    /\ \A k \in DOMAIN vrefs : vrefs[k].ptr \in ValuePtrs
    /\ \A v \in ValuePtrs : valRel[v] = 0

\* A reference constant_input returned has been dropped.
C7_Witness ==
    \E k \in DOMAIN vrefs : ~vrefs[k].alive /\ vrefs[k].ptr \in ValuePtrs

(***************************************************************************)
(* KernelContext::par_for and the trampoline parallel_for_cb.              *)
(*                                                                         *)
(* pf.pc: "idle" (not called), "native" (inside KernelContext_ParallelFor),*)
(* "after_native" (the native call has returned, par_for has not),         *)
(* "returned". pf.box is the boxed closure `executor`: "none", "live" or   *)
(* "freed"; pf.frees counts the times it was freed. pf.cnt[i] counts the   *)
(* trampoline invocations with index i; pf.uaf records that an invocation  *)
(* found the box not live.                                                 *)
(***************************************************************************)

\* The engine's partition of [0, n) into contiguous batches, one worker
\* each: at most max_num_batches of them, one per index when it is 0.
NumBatches(n, max_num_batches) ==
    IF max_num_batches = 0 \/ max_num_batches > n THEN n ELSE max_num_batches

BatchLo(b, n, nb) ==
    LET q == n \div nb
        r == n % nb
    IN  b * q + (IF b < r THEN b ELSE r)

EngineWorkers(n, max_num_batches) ==
    LET nb == NumBatches(n, max_num_batches)
    IN  [b \in 1..nb |-> [next |-> BatchLo(b - 1, n, nb),
                          hi |-> BatchLo(b, n, nb), running |-> FALSE]]

\* The `total` par_for hands to KernelContext_ParallelFor (line 388), and a
\* faulty variant that hands it the other usize argument.
native_total_swapped(total, max_num_batches) == max_num_batches
native_total(total, max_num_batches) == total

\* par_for up to the native call: the closure is boxed and its address
\* passed as user data.
ParFor ==
    /\ pf.pc = "idle"
    /\ \E total \in 0..MaxTotal, mb \in 0..MaxTotal :
         pf' = [pf EXCEPT !.pc = "native", !.total = total,
                          !.max_num_batches = mb, !.box = "live",
                          !.workers = EngineWorkers(native_total(total, mb), mb)]
    /\ UNCHANGED <<res, lifeVars, attrVars, ioVars>>

\* What an invocation of parallel_for_cb leaves of the box (line 433: it
\* takes a shared reference), and a faulty variant that takes the box itself and
\* so frees it on return.
parallel_for_cb_takes(b) == [box |-> "freed", frees |-> b.frees + 1]
parallel_for_cb_borrows(b) == b

\* An engine worker calls the trampoline with the next index of its batch.
CbEnter(b) ==
    /\ pf.pc = "native"
    /\ ~pf.workers[b].running
    /\ pf.workers[b].next < pf.workers[b].hi
    /\ pf' = [pf EXCEPT !.workers[b].running = TRUE,
                        !.cnt[pf.workers[b].next] = @ + 1,
                        !.uaf = @ \/ pf.box # "live"]
    /\ UNCHANGED <<res, lifeVars, attrVars, ioVars>>

\* The closure returns to the trampoline, which returns to the worker.
CbReturn(b) ==
    /\ pf.pc = "native"
    /\ pf.workers[b].running
    /\ LET after == parallel_for_cb_borrows([box |-> pf.box, frees |-> pf.frees])
       IN  pf' = [pf EXCEPT !.workers[b].running = FALSE,
                            !.workers[b].next = @ + 1,
                            !.box = after.box, !.frees = after.frees]
    /\ UNCHANGED <<res, lifeVars, attrVars, ioVars>>

AllDone == \A b \in DOMAIN pf.workers : pf.workers[b].next = pf.workers[b].hi
NoneRunning == \A b \in DOMAIN pf.workers : ~pf.workers[b].running

\* KernelContext_ParallelFor returns: with success once every batch is
\* done, or with an error status; never while an invocation is running
\* (the engine's synchronous dispatch).
NativeReturn ==
    /\ pf.pc = "native"
    /\ NoneRunning
    /\ \E status \in {"ok", "error"} :
         /\ status = "ok" => AllDone
         /\ pf' = [pf EXCEPT !.pc = "after_native", !.status = status]
    /\ UNCHANGED <<res, lifeVars, attrVars, ioVars>>

\* par_for after the native call: `?` returns the error, else Ok(()); on
\* both paths `executor` goes out of scope and the box is freed.
ParForReturn ==
    /\ pf.pc = "after_native"
    /\ pf' = [pf EXCEPT !.pc = "returned", !.box = "freed", !.frees = @ + 1,
                        !.result = IF pf.status = "ok" THEN "Ok" ELSE "Err"]
    /\ UNCHANGED <<res, lifeVars, attrVars, ioVars>>

NextPar ==
    \/ ParFor
    \/ \E b \in DOMAIN pf.workers : CbEnter(b)
    \/ \E b \in DOMAIN pf.workers : CbReturn(b)
    \/ NativeReturn
    \/ ParForReturn

InitPar == LifeIdle /\ CtxIdle /\ AttrIdle /\ IoIdle

SpecPar == InitPar /\ [][NextPar]_vars

Invoked(i) == pf.cnt[i]

\* C3 as stated: whenever par_for has returned, every index of [0, total)
\* was passed to work exactly once and no invocation is still running.
C3_EveryIndexOnceAtReturn ==
    pf.pc = "returned" =>
        /\ NoneRunning
        /\ \A i \in 0..(MaxTotal - 1) : Invoked(i) = IF i < pf.total THEN 1 ELSE 0

\* C3 amended: no index is ever passed twice and none outside [0, total);
\* once the native call has returned no invocation is running; and when
\* par_for returns Ok every index of [0, total) was passed exactly once.
C3_OnceEachWhenOk ==
    /\ \A i \in 0..(MaxTotal - 1) : Invoked(i) <= (IF i < pf.total THEN 1 ELSE 0)
    /\ pf.pc \in {"after_native", "returned"} => NoneRunning
    /\ (pf.pc = "returned" /\ pf.result = "Ok") =>
         \A i \in 0..(MaxTotal - 1) : i < pf.total => Invoked(i) = 1

\* par_for returned Ok after a dispatch over several concurrent batches.
C3_Witness ==
    /\ pf.pc = "returned" /\ pf.result = "Ok"
    /\ pf.total = MaxTotal /\ Len(pf.workers) > 1
    /\ \A i \in 0..(MaxTotal - 1) : Invoked(i) = 1

\* C4: no invocation of the trampoline finds the box freed; the box is live
\* and never freed while the native call runs and until par_for resumes;
\* when par_for has returned, with Ok or with Err, it has been freed
\* exactly once.
C4_BoxOutlivesDispatch ==
    /\ ~pf.uaf
    /\ pf.pc \in {"native", "after_native"} => (pf.box = "live" /\ pf.frees = 0)
    /\ pf.pc = "returned" =>
         /\ pf.box = "freed" /\ pf.frees = 1
         /\ pf.result = (IF pf.status = "ok" THEN "Ok" ELSE "Err")
    /\ pf.pc = "idle" => (pf.box = "none" /\ pf.frees = 0)

\* par_for returned an error after some, not all, invocations ran.
C4_Witness ==
    /\ pf.pc = "returned" /\ pf.result = "Err" /\ pf.box = "freed"
    /\ \E i \in 0..(MaxTotal - 1) : Invoked(i) = 1
    /\ ~AllDone

(***************************************************************************)
(* KernelContext::get_resource.                                            *)
(*                                                                         *)
(* res.table is the engine's side: the pointer the execution provider      *)
(* holds for each <<id, version>>, 0 (null) for a resource it does not     *)
(* support.                                                                *)
(***************************************************************************)

\* KernelContext_GetResource(ctx, resource_version, resource_id, &out): the
\* pointer the engine holds for that resource.
NativeGetResource(table, resource_version, resource_id) ==
    table[<<resource_id, resource_version>>]

\* NonNull::new (line 380) and a faulty variant that wraps the pointer unchecked.
non_null_unchecked(ptr) == [tag |-> "Ok", some |-> TRUE, ptr |-> ptr]
non_null(ptr) == [tag |-> "Ok", some |-> ptr # 0, ptr |-> ptr]

\* get_resource: `?` on the status, then Ok(NonNull::new(resource_ptr)).
get_resource(status, resource_ptr) ==
    IF status # "ok" THEN [tag |-> "Err", some |-> FALSE, ptr |-> 0]
    ELSE non_null(resource_ptr)

\* The engine answers a request with the pointer it holds; it reports an
\* unsupported resource either as a null pointer or as an error status
\* (resource_ptr then keeps its initial null).
GetResource ==
    /\ \E id \in {0, 1}, version \in {0, 1}, status \in {"ok", "error"} :
         LET held == NativeGetResource(res.table, version, id)
             ptr  == IF status = "ok" THEN held ELSE 0
         IN  /\ status = "error" => held = 0
             /\ res' = [res EXCEPT !.op = "get_resource", !.id = id,
                                   !.version = version, !.status = status,
                                   !.ptr = ptr,
                                   !.result = get_resource(status, ptr)]
    /\ UNCHANGED <<pf, lifeVars, attrVars, ioVars>>

NextRes == GetResource

InitRes ==
    /\ pf = PfIdle
    /\ \E table \in [ResourceKeys -> {0, 1, 2}] : res = ResIdle(table)
    /\ LifeIdle /\ AttrIdle /\ IoIdle

SpecRes == InitRes /\ [][NextRes]_vars

Unsupported == res.table[<<res.id, res.version>>] = 0

\* C9 as stated: a request for an unsupported resource returns Ok(None),
\* never an error.
C9_UnsupportedIsAbsent ==
    (res.op = "get_resource" /\ Unsupported) =>
        (res.result.tag = "Ok" /\ ~res.result.some)

\* C9 amended: get_resource returns Err exactly when the native call
\* returned an error status; Ok(None) exactly when it succeeded with a null
\* pointer; a present value only with the non-null pointer the engine holds
\* for that <<id, version>>; an unsupported resource never gives a present
\* value.
C9_AbsentOnNullErrOnStatus ==
    res.op = "get_resource" =>
        /\ res.result.tag = "Err" <=> res.status = "error"
        /\ (res.result.tag = "Ok" /\ ~res.result.some) <=>
               (res.status = "ok" /\ res.ptr = 0)
        /\ (res.result.tag = "Ok" /\ res.result.some) =>
               /\ res.result.ptr # 0
               /\ res.result.ptr = res.table[<<res.id, res.version>>]
        /\ Unsupported => ~(res.result.tag = "Ok" /\ res.result.some)

\* An unsupported resource was requested and the engine answered with
\* success and a null pointer: get_resource returned Ok(None).
C9_Witness ==
    /\ res.op = "get_resource" /\ Unsupported
    /\ res.status = "ok" /\ res.result.tag = "Ok" /\ ~res.result.some

(***************************************************************************)
(* Attribute decoding: GetKernelAttribute::get_from, KernelAttributes::get *)
(* and node_name.                                                          *)
(*                                                                         *)
(* A byte is 0 (NUL), 1 (an ASCII character) or 2 (0xFF, which no UTF-8    *)
(* text contains). Floats and integers are 0 (the default the decoder      *)
(* starts from) and 1. info is the one attribute the kernel info holds,    *)
(* under info.name (info.attr.ty is "none" when it holds none), and the    *)
(* name of the node.                                                       *)
(***************************************************************************)
Bytes == {0, 1, 2}
InvalidUtf8 == {2}
Numbers == {0, 1}
ElemTypes == {"f32", "i64"}

SeqsUpTo(S, n) == UNION {[1..k -> S] : k \in 0..n}

\* The values an attribute of each native type may hold.
ValuesOf(ty) ==
    CASE ty = "float"  -> Numbers
      [] ty = "int"    -> Numbers
      [] ty = "string" -> SeqsUpTo(Bytes, MaxLen)
      [] ty = "floats" -> SeqsUpTo(Numbers, MaxLen)
      [] ty = "ints"   -> SeqsUpTo(Numbers, MaxLen)
      [] ty = "tensor" -> ElemTypes
      [] OTHER         -> {<<>>}

AttrTypes == {"float", "int", "string", "floats", "ints", "tensor"}
TwoCall == {"string", "floats", "ints"}

\* The host types T of get::<T> / T::get_from, and the native attribute
\* type each one reads.
HostTypes == {"float", "int", "string", "floats", "ints", "tensor_f32", "tensor_i64"}
NativeType(T) == IF T \in {"tensor_f32", "tensor_i64"} THEN "tensor" ELSE T
ElemType(T) == IF T = "tensor_f32" THEN "f32" ELSE "i64"

\* Attribute names: the stored ones are C strings; a lookup name is any
\* &str, which may contain a NUL.
StoredNames == {<<1>>, <<1, 1>>}
LookupNames == StoredNames \cup {<<1, 0, 1>>}

\* The native lookup: the attribute `name` of native type ty exists.
Found(inf, name, ty) ==
    inf.attr.ty # "none" /\ inf.name = name /\ inf.attr.ty = ty

\* A native getter that reports a size: with a null output it reports the
\* required number of elements; with a buffer of *size elements it fills
\* it when it is large enough and fails when it is not. data is what the
\* engine holds, with the terminating NUL for a string.
NativeSize(data) == Len(data)

NativeFill(data, buf) ==
    IF Len(buf) >= Len(data)
    THEN [status |-> "ok", size |-> Len(data),
          buf |-> [k \in 1..Len(buf) |-> IF k <= Len(data) THEN data[k] ELSE buf[k]]]
    ELSE [status |-> "error", size |-> Len(data), buf |-> buf]

\* What the engine copies out for a value: a string gets its NUL.
NativeData(ty, v) == IF ty = "string" THEN Append(v, 0) ELSE v

\* vec![0; size] (lines 235, 263, 290) and a faulty variant one element too long.
zeroed_one_more(size) == [k \in 1..(size + 1) |-> 0]
zeroed(size) == [k \in 1..size |-> 0]

\* CString::from_vec_with_nul: exactly one NUL, the last byte.
from_vec_with_nul(buf) ==
    IF buf # <<>> /\ buf[Len(buf)] = 0 /\ \A k \in 1..(Len(buf) - 1) : buf[k] # 0
    THEN [tag |-> "Ok", val |-> SubSeq(buf, 1, Len(buf) - 1)]
    ELSE [tag |-> "Err", val |-> <<>>]

\* CString::into_string: the bytes must be UTF-8.
into_string(bytes) ==
    IF \A k \in DOMAIN bytes : bytes[k] \notin InvalidUtf8
    THEN [tag |-> "Ok", val |-> bytes]
    ELSE [tag |-> "Err", val |-> <<>>]

\* from_vec_with_nul(..)?.into_string()? of lines 237-238, 57-60, 107.
decode_string(buf) ==
    LET c == from_vec_with_nul(buf)
    IN  IF c.tag = "Ok" THEN into_string(c.val) ELSE c

Decoded(r, size1, size2) ==
    [tag |-> r.tag, val |-> r.val, size1 |-> size1, size2 |-> size2]

\* The two-call pattern of lines 233-236, 261-264, 288-291 and 103-106: v1
\* is what the engine holds at the size query, v2 at the fill (v1 = v2
\* unless the engine breaks its contract); fail names the call, 1 or 2,
\* that returns an error status (0: none). The result of the second call
\* is used as it is: `size` is overwritten and not compared.
two_call(ty, v1, v2, fail) ==
    IF fail = 1 THEN Decoded([tag |-> "Err", val |-> <<>>], -1, -1)
    ELSE LET size == NativeSize(NativeData(ty, v1))
             f    == NativeFill(NativeData(ty, v2), zeroed(size))
         IN  IF fail = 2 THEN Decoded([tag |-> "Err", val |-> <<>>], size, -1)
             ELSE IF f.status # "ok"
             THEN Decoded([tag |-> "Err", val |-> <<>>], size, f.size)
             ELSE IF ty = "string"
             THEN Decoded(decode_string(f.buf), size, f.size)
             ELSE Decoded([tag |-> "Ok", val |-> f.buf], size, f.size)

\* T::get_from(info, name) for each host type T.
get_from(inf, name, T, v2) ==
    LET ty == NativeType(T) IN
    IF ~Found(inf, name, ty)
    THEN Decoded([tag |-> "Err", val |-> <<>>], -1, -1)
    ELSE IF ty \in {"float", "int"}
    THEN Decoded([tag |-> "Ok", val |-> inf.attr.val], -1, -1)
    ELSE IF ty = "tensor"
    THEN \* the tensor is fetched, then downcast to the element type
         IF inf.attr.val = ElemType(T)
         THEN Decoded([tag |-> "Ok", val |-> inf.attr.val], -1, -1)
         ELSE Decoded([tag |-> "Err", val |-> <<>>], -1, -1)
    ELSE two_call(ty, inf.attr.val, v2, 0)

\* util::with_cstr: the name as a C string handed to f, an error when the
\* name holds a NUL.
with_cstr(name, r) ==
    IF \E k \in DOMAIN name : name[k] = 0
    THEN Decoded([tag |-> "Err", val |-> <<>>], -1, -1)
    ELSE r

\* Result::ok (line 44) and a faulty variant that keeps what the decoder left.
ok_or_value(r) == [tag |-> "Some", val |-> r.val]
ok(r) == IF r.tag = "Ok" THEN [tag |-> "Some", val |-> r.val]
         ELSE [tag |-> "None", val |-> <<>>]

\* KernelAttributes::get::<T>(name).
get(inf, name, T, v2) == ok(with_cstr(name, get_from(inf, name, T, v2)))

\* The engine's views at the fill call: any value of the type when the
\* operation makes a second call, else the one it holds.
SecondViews(inf, name, T) ==
    IF Found(inf, name, NativeType(T)) /\ NativeType(T) \in TwoCall
    THEN ValuesOf(NativeType(T))
    ELSE {inf.attr.val}

Get ==
    /\ \E name \in LookupNames, T \in HostTypes :
         \E v2 \in SecondViews(info, name, T) :
           call' = [op |-> "get", ty |-> T, name |-> name, v2 |-> v2,
                    inner |-> with_cstr(name, get_from(info, name, T, v2)),
                    result |-> get(info, name, T, v2)]
    /\ UNCHANGED <<info, lifeVars, ctxVars, ioVars>>

GetFrom ==
    /\ \E name \in StoredNames, T \in HostTypes :
         \E v2 \in SecondViews(info, name, T) :
           LET r == get_from(info, name, T, v2)
           IN  call' = [op |-> "get_from", ty |-> T, name |-> name, v2 |-> v2,
                        inner |-> r, result |-> [tag |-> r.tag, val |-> r.val]]
    /\ UNCHANGED <<info, lifeVars, ctxVars, ioVars>>

NextAttr == Get \/ GetFrom

InitAttr ==
    /\ \E name \in StoredNames, ty \in AttrTypes \cup {"none"} :
         \E v \in ValuesOf(ty) :
           info = [name |-> name, attr |-> [ty |-> ty, val |-> v],
                   node_name |-> <<>>]
    /\ call = NoCall
    /\ LifeIdle /\ CtxIdle /\ IoIdle

SpecAttr == InitAttr /\ [][NextAttr]_vars

\* KernelAttributes::node_name: the two-call pattern on the node's name.
node_name(n1, n2, fail) == two_call("string", n1, n2, fail)

NodeName ==
    /\ \E n2 \in ValuesOf("string"), fail \in 0..2 :
         LET r == node_name(info.node_name, n2, fail)
         IN  call' = [op |-> "node_name", ty |-> "string", name |-> <<>>,
                      v2 |-> n2, inner |-> r,
                      result |-> [tag |-> r.tag, val |-> r.val]]
    /\ UNCHANGED <<info, lifeVars, ctxVars, ioVars>>

NextName == NodeName

InitName ==
    /\ \E n \in ValuesOf("string") :
         info = [name |-> <<>>, attr |-> [ty |-> "none", val |-> <<>>],
                 node_name |-> n]
    /\ call = NoCall
    /\ LifeIdle /\ CtxIdle /\ IoIdle

SpecName == InitName /\ [][NextName]_vars

\* The attribute the last call asked for exists with the native type of T.
Hit == Found(info, call.name, NativeType(call.ty))

\* The engine held the same value at the size query and at the fill.
Honest == call.v2 = info.attr.val

\* A string a host String can be decoded from: no NUL inside, UTF-8.
ValidText(v) == \A k \in DOMAIN v : v[k] # 0 /\ v[k] \notin InvalidUtf8

Present == call.result.tag \in {"Ok", "Some"}

\* C5: get never gives an error or a panic, only None or Some; it gives
\* None when the name holds a NUL, when no attribute has that name, when
\* the attribute has another type than T (another tensor element type
\* included), and when a string does not decode; and it gives Some(v)
\* exactly when get_from succeeded with v.
C5_GetDowngradesToNone ==
    call.op = "get" =>
        /\ call.result.tag \in {"None", "Some"}
        /\ (\E k \in DOMAIN call.name : call.name[k] = 0) => call.result.tag = "None"
        /\ (info.attr.ty = "none" \/ info.name # call.name) => call.result.tag = "None"
        /\ info.attr.ty # NativeType(call.ty) => call.result.tag = "None"
        /\ (Hit /\ call.ty \in {"tensor_f32", "tensor_i64"}
                /\ info.attr.val # ElemType(call.ty)) => call.result.tag = "None"
        /\ (Hit /\ call.ty = "string" /\ Honest /\ ~ValidText(info.attr.val)) =>
               call.result.tag = "None"
        /\ call.result.tag = "Some" <=> call.inner.tag = "Ok"
        /\ call.result.tag = "Some" => call.result.val = call.inner.val

\* get was asked for an attribute that exists with another type.
C5_Witness ==
    /\ call.op = "get" /\ call.result.tag = "None"
    /\ info.attr.ty = "floats" /\ info.name = call.name /\ call.ty = "ints"

FiveTypes == {"float", "int", "string", "floats", "ints"}

\* C8 as stated: an attribute of one of the five types that the engine
\* holds with value v decodes to v.
C8_RoundTrip ==
    (call.op \in {"get", "get_from"} /\ call.ty \in FiveTypes /\ Hit /\ Honest) =>
        (Present /\ call.result.val = info.attr.val)

\* C8 amended: the round trip holds for floats, integers and both arrays
\* (the empty array included), and for a string that holds no NUL byte and
\* is UTF-8 (the empty string included); another string does not decode.
C8_RoundTripValidText ==
    (call.op \in {"get", "get_from"} /\ call.ty \in FiveTypes /\ Hit /\ Honest) =>
        IF call.ty = "string" /\ ~ValidText(info.attr.val)
        THEN ~Present
        ELSE /\ Present /\ call.result.val = info.attr.val
             /\ call.ty \in TwoCall =>
                  /\ call.inner.size1 = Len(NativeData(call.ty, info.attr.val))
                  /\ call.inner.size2 = call.inner.size1

\* A string of the greatest length was decoded through get_from.
C8_Witness ==
    /\ call.op = "get_from" /\ call.ty = "string" /\ Hit /\ Honest
    /\ Len(info.attr.val) = MaxLen /\ ValidText(info.attr.val)
    /\ call.result = [tag |-> "Ok", val |-> info.attr.val]

\* C10 as stated: when the second call of a two-call operation reports
\* another size than the first, the operation aborts.
C10_SizeMismatchAborts ==
    (call.inner.size1 # -1 /\ call.inner.size2 # -1
        /\ call.inner.size1 # call.inner.size2) => call.result.tag = "Abort"

(***************************************************************************)
(* KernelAttributes::inputs and outputs.                                   *)
(*                                                                         *)
(* decl holds what the operator declares, in order: each input (output) a  *)
(* name and a type. fail names the native call the engine answers with an  *)
(* error status: the count ("count"), or at index idx the name's size      *)
(* query ("len"), its fill ("fill"), the type-info query ("type"), or a    *)
(* type-info query that yields a null pointer ("null"). log lists the      *)
(* native calls made, in order.                                            *)
(***************************************************************************)
DeclEntries ==
    {[name |-> <<1>>, ty |-> "f32"], [name |-> <<1, 1>>, ty |-> "i64"],
     [name |-> <<2>>, ty |-> "f32"]}

NoFail == [kind |-> "none", idx |-> 0]
Fails ==
    {NoFail, [kind |-> "count", idx |-> 0]}
        \cup [kind : {"len", "fill", "type", "null"}, idx : 0..(MaxDecl - 1)]

\* What an error inside the loop returns (the `?` of lines 54-62 and 76-84:
\* the vector built so far is dropped), and a faulty variant that returns it.
returns_partial(acc, log) == [tag |-> "Ok", val |-> acc, log |-> log]
returns_err(acc, log) == [tag |-> "Err", val |-> <<>>, log |-> log]

NativeCall(fn, idx) == [fn |-> fn, idx |-> idx]

\* The loop body for idx..num-1 (lines 52-65, 74-87): name by two calls,
\* decoded; type info; push.
RECURSIVE enumerate_from(_, _, _, _, _)
enumerate_from(items, idx, acc, log, fail) ==
    IF idx = Len(items) THEN [tag |-> "Ok", val |-> acc, log |-> log]
    ELSE
    LET here(kind) == fail = [kind |-> kind, idx |-> idx]
        log1 == Append(log, NativeCall("len", idx))
        log2 == Append(log1, NativeCall("fill", idx))
        log3 == Append(log2, NativeCall("type", idx))
        name == two_call("string", items[idx + 1].name, items[idx + 1].name,
                         IF here("len") THEN 1 ELSE IF here("fill") THEN 2 ELSE 0)
    IN  IF here("len") THEN returns_err(acc, log1)
        ELSE IF name.tag # "Ok" THEN returns_err(acc, log2)
        ELSE IF here("type") \/ here("null") THEN returns_err(acc, log3)
        ELSE enumerate_from(items, idx + 1,
                 Append(acc, [name |-> name.val, ty |-> items[idx + 1].ty]),
                 log3, fail)

\* The count, then the loop (lines 48-51 and 66, 70-73 and 88).
enumerate(items, fail) ==
    IF fail.kind = "count"
    THEN [tag |-> "Err", val |-> <<>>, log |-> <<NativeCall("count", 0)>>]
    ELSE enumerate_from(items, 0, <<>>, <<NativeCall("count", 0)>>, fail)

inputs(d, fail) == enumerate(d.inputs, fail)
outputs(d, fail) == enumerate(d.outputs, fail)

Inputs ==
    /\ \E fail \in Fails :
         LET r == inputs(decl, fail)
         IN  io' = [op |-> "inputs", fail |-> fail,
                    result |-> [tag |-> r.tag, val |-> r.val], log |-> r.log]
    /\ UNCHANGED <<decl, lifeVars, ctxVars, attrVars>>

Outputs ==
    /\ \E fail \in Fails :
         LET r == outputs(decl, fail)
         IN  io' = [op |-> "outputs", fail |-> fail,
                    result |-> [tag |-> r.tag, val |-> r.val], log |-> r.log]
    /\ UNCHANGED <<decl, lifeVars, ctxVars, attrVars>>

NextIo == Inputs \/ Outputs

InitIo ==
    /\ \E ins \in SeqsUpTo(DeclEntries, MaxDecl), outs \in SeqsUpTo(DeclEntries, MaxDecl) :
         decl = [inputs |-> ins, outputs |-> outs]
    /\ io = NoIo
    /\ LifeIdle /\ CtxIdle /\ AttrIdle

SpecIo == InitIo /\ [][NextIo]_vars

\* What the last call enumerated.
Declared == IF io.op = "inputs" THEN decl.inputs ELSE decl.outputs

\* The native calls of a complete enumeration of n entries, in order.
FullLog(n) ==
    [k \in 1..(1 + 3 * n) |->
        IF k = 1 THEN [fn |-> "count", idx |-> 0]
        ELSE [fn |-> <<"len", "fill", "type">>[((k - 2) % 3) + 1],
              idx |-> (k - 2) \div 3]]

IsPrefix(a, b) == Len(a) <= Len(b) /\ \A k \in DOMAIN a : a[k] = b[k]

\* The first index whose declared name does not decode (0-based), or the
\* number of entries when all do.
FirstBadName(items) ==
    IF \A k \in DOMAIN items : ValidText(items[k].name) THEN Len(items)
    ELSE (CHOOSE k \in DOMAIN items :
            /\ ~ValidText(items[k].name)
            /\ \A j \in 1..(k - 1) : ValidText(items[j].name)) - 1

\* The native call the injected failure hits, as a log entry.
FailedCall ==
    [fn |-> IF io.fail.kind = "null" THEN "type" ELSE io.fail.kind, idx |-> io.fail.idx]

\* C6: inputs() and outputs() return Ok or Err. Ok is returned exactly when
\* no native call fails and every name decodes; the result then has one
\* element per declared entry, the i-th with the i-th declared name and
\* type, after the complete sequence of native calls. Err carries no
\* element, and the native calls made are a prefix of the complete sequence
\* that ends with the call that failed (or with the fill of the name that
\* did not decode): no call follows the failure.
C6_AllOrNothingInOrder ==
    io.op \in {"inputs", "outputs"} =>
        LET n == Len(Declared) IN
        /\ io.result.tag \in {"Ok", "Err"}
        /\ IsPrefix(io.log, FullLog(n))
        /\ io.result.tag = "Ok" =>
             /\ Len(io.result.val) = n
             /\ \A i \in 1..n : io.result.val[i] = Declared[i]
             /\ io.log = FullLog(n)
        /\ io.result.tag = "Err" =>
             /\ io.result.val = <<>>
             /\ io.log # <<>>
             /\ LET end == io.log[Len(io.log)] IN
                  \/ io.fail.kind # "none" /\ end = FailedCall
                  \/ end = [fn |-> "fill", idx |-> FirstBadName(Declared)]
        /\ io.result.tag = "Ok" <=>
             /\ FirstBadName(Declared) = n
             /\ io.fail.kind = "none" \/ (io.fail.kind # "count" /\ io.fail.idx >= n)

\* An operator with no input and MaxDecl outputs: outputs() returned them.
C6_Witness ==
    /\ io.op = "outputs" /\ io.result.tag = "Ok"
    /\ decl.inputs = <<>> /\ Len(decl.outputs) = MaxDecl
    /\ io.result.val = decl.outputs
    /\ decl.outputs[1] # decl.outputs[MaxDecl]

(***************************************************************************)
(* GetKernelAttribute::from_read_op: decoding from a raw OrtOpAttr.        *)
(*                                                                         *)
(* info.attr is the attribute behind the OrtOpAttr pointer. len is the     *)
(* caller's length in bytes; status and produced are the engine's answer   *)
(* to ReadOpAttr: its status and the byte count it writes back to len.     *)
(***************************************************************************)

\* size_of::<f32>(), size_of::<i64>(), size_of::<u8>() of the element.
Width(T) ==
    CASE T \in {"float", "floats"} -> 4
      [] T \in {"int", "ints"}     -> 8
      [] OTHER                     -> 1

\* The byte counts explored for T: up to one element past MaxLen elements.
ByteCounts(T) == 0..(Width(T) * (MaxLen + 1))

\* assert_eq!(len, size_of::<T>()) of the scalars (lines 173, 198).
scalar_assert(produced, width) == produced = width

\* assert_eq!(out.len(), len / size_of::<T>()) of the string and the arrays
\* (lines 223, 253, 280): the division truncates.
buffer_assert(out_len, produced, width) == out_len = produced \div width

\* What ReadOpAttr leaves in the buffer: the elements the attribute holds,
\* as far as the buffer goes.
NativeRead(data, buf) ==
    [k \in 1..Len(buf) |-> IF k <= Len(data) THEN data[k] ELSE buf[k]]

\* T::from_read_op(attr, len). The trait's default (the tensor reference)
\* is Err("not implemented").
from_read_op(T, v, len, status, produced) ==
    IF T \notin FiveTypes THEN [tag |-> "Err", val |-> <<>>]
    ELSE IF T \in {"float", "int"}
    THEN IF status # "ok" THEN [tag |-> "Err", val |-> <<>>]
         ELSE IF ~scalar_assert(produced, Width(T)) THEN [tag |-> "Abort", val |-> <<>>]
         ELSE [tag |-> "Ok", val |-> v]
    ELSE LET out == zeroed(len \div Width(T))
         IN  IF status # "ok" THEN [tag |-> "Err", val |-> <<>>]
             ELSE IF ~buffer_assert(Len(out), produced, Width(T))
             THEN [tag |-> "Abort", val |-> <<>>]
             ELSE IF T = "string"
             THEN LET d == decode_string(NativeRead(NativeData(T, v), out))
                  IN  [tag |-> d.tag, val |-> d.val]
             ELSE [tag |-> "Ok", val |-> NativeRead(v, out)]

\* The engine answers with success only for an attribute of the type asked
\* for; the byte count it reports is its own.
FromReadOp ==
    /\ \E T \in HostTypes, status \in {"ok", "error"} :
         \E len \in ByteCounts(T), produced \in ByteCounts(T) :
           /\ status = "ok" => info.attr.ty = NativeType(T)
           /\ status = "error" => produced = len
           /\ LET r == from_read_op(T, info.attr.val, len, status, produced)
              IN  call' = [op |-> "from_read_op", ty |-> T, name |-> <<>>,
                           v2 |-> info.attr.val, inner |-> Decoded(r, -1, -1),
                           result |-> r,
                           read |-> [len |-> len, status |-> status,
                                     produced |-> produced]]
    /\ UNCHANGED <<info, lifeVars, ctxVars, ioVars>>

NextRead == FromReadOp

InitRead ==
    /\ \E ty \in FiveTypes : \E v \in ValuesOf(ty) :
         info = [name |-> <<>>, attr |-> [ty |-> ty, val |-> v], node_name |-> <<>>]
    /\ call = NoCall
    /\ LifeIdle /\ CtxIdle /\ IoIdle

SpecRead == InitRead /\ [][NextRead]_vars

\* The byte count the decoder expects: the scalar's width, the caller's
\* length for a string or an array.
ExpectedBytes ==
    IF call.ty \in {"float", "int"} THEN Width(call.ty) ELSE call.read.len

\* C11 as stated: after a successful ReadOpAttr, every reported byte count
\* that differs from the expected one, a multiple of the element width or
\* not, ends in an assertion failure, never in a value or an error.
C11_ByteCountMismatchAborts ==
    (call.op = "from_read_op" /\ call.ty \in FiveTypes
        /\ call.read.status = "ok" /\ call.read.produced # ExpectedBytes) =>
        call.result.tag = "Abort"

====
